---- MODULE Spec2Model ----
(***************************************************************************)
(* Model of the readln crate (src/src/lib.rs, src/src/unix.rs).            *)
(*                                                                         *)
(* A Rust String is modelled as the sequence of its UTF-8 bytes, a char as *)
(* its code point, a cursor as a byte offset (0-based, as in the source).  *)
(* Spec       : a caller that calls pushln repeatedly on one history.      *)
(* SpecReadln : a caller that calls readln on a buffer of its own.         *)
(***************************************************************************)
EXTENDS Integers, Sequences, FiniteSets, TLC

\* ------------------------------------------------------------------ bounds
\* Longest buffer (in bytes) an insertion may produce inside pushln.
MaxLen == 1
\* pushln is called only while the history holds at most this many entries.
MaxHist == 2
\* Keys read by one readln call.
MaxKeys == 3
\* Longest buffer (in bytes) the caller hands to readln.
MaxLine == 2

\* ------------------------------------------------------- program constants
\* b' ', the only word delimiter (lib.rs:257, 262, 268).
SPACE == 32

\* Code points the key source delivers as Key::Char (`ch as char` of a byte,
\* unix.rs:12): 'a', ' ' and U+00E9, whose UTF-8 encoding has two bytes.
Chars == {97, SPACE, 233}

\* ------------------------------------------------------------ enum Key
Key(t) == [type |-> t, ch |-> 0]
Char(c) == [type |-> "Char", ch |-> c]
NoKey == [type |-> "None", ch |-> 0]

\* The keys of readch's own match arms and Key::NA.
EditKeysOver(cs) ==
  {Char(c) : c \in cs}
    \cup {Key(t) : t \in {"NA", "Backspace", "ArrowRight", "ArrowLeft",
                          "CtrlBackspace", "CtrlArrowRight", "CtrlArrowLeft"}}

\* The keys pushln passes over with `_ => continue`. pushln itself never
\* looks at the bytes of a buffer, so its sessions type 'a' and U+00E9 only.
PushlnChars == {97, 233}
EditKeys == EditKeysOver(PushlnChars)

\* Every key but Enter: what readln's loop goes round on.
LoopKeys == EditKeysOver(Chars) \cup {Key("ArrowUp"), Key("ArrowDown")}

\* ------------------------------------------------------------ str / String
\* char::encode_utf8 for code points below U+0800.
Utf8(cp) ==
  IF cp < 128 THEN <<cp>> ELSE <<192 + (cp \div 64), 128 + (cp % 64)>>

\* A UTF-8 continuation byte (10xxxxxx).
IsContinuation(b) == b >= 128 /\ b < 192

\* str::is_char_boundary(i), i a 0-based byte offset.
IsCharBoundary(s, i) ==
  \/ i = 0
  \/ i = Len(s)
  \/ i > 0 /\ i < Len(s) /\ ~IsContinuation(s[i + 1])

\* Width in bytes of the char whose lead byte is b.
CharWidth(b) == IF b < 128 THEN 1 ELSE IF b < 224 THEN 2 ELSE IF b < 240 THEN 3 ELSE 4

\* usize::saturating_sub.
SaturatingSub(a, b) == IF a >= b THEN a - b ELSE 0

\* A usize that may have wrapped is kept at its full width of 64 bits, as
\* four limbs of 16 bits, the most significant first: usize::MAX, which is
\* 18446744073709551615, is <<65535, 65535, 65535, 65535>>.
Limb == 2^16

\* The usize of a length or an index n (these stay below 2^31).
Usize(n) == <<0, 0, n \div Limb, n % Limb>>

\* usize::MAX - u.
UsizeNot(u) ==
  <<Limb - 1 - u[1], Limb - 1 - u[2], Limb - 1 - u[3], Limb - 1 - u[4]>>

\* Whether u is below 2^31, and the number it is then.
UsizeFits(u) == u[1] = 0 /\ u[2] = 0 /\ u[3] < 2^15
UsizeNat(u) == u[3] * Limb + u[4]

\* u < n for a length n.
UsizeLess(u, n) == UsizeFits(u) /\ UsizeNat(u) < n

\* Mutant of WrappingSub: the subtraction saturates instead of wrapping.
WrappingSubSaturates(a, b) == IF a >= b THEN Usize(a - b) ELSE Usize(0)

\* usize::wrapping_sub: a - b modulo 2^64, which below zero is
\* usize::MAX - (b - a - 1).
WrappingSub(a, b) ==
  IF a >= b THEN Usize(a - b) ELSE UsizeNot(Usize(b - a - 1))

\* rposition(|c| c == b' ') over s[..p], then unwrap_or_default().
RPositionSpace(s, p) ==
  LET hits == {i \in 0..(p - 1) : s[i + 1] = SPACE}
  IN IF hits = {} THEN 0 ELSE CHOOSE i \in hits : \A j \in hits : j <= i

\* Mutant of WordRight: the byte under the cursor is tested before the
\* cursor moves.
RECURSIVE WordRightTestsFirst(_, _)
WordRightTestsFirst(s, p) ==
  IF p < Len(s)
  THEN IF s[p + 1] = SPACE THEN p ELSE WordRightTestsFirst(s, p + 1)
  ELSE p

\* The while loop of the CtrlArrowRight arm.
RECURSIVE WordRight(_, _)
WordRight(s, p) ==
  IF p < Len(s)
  THEN IF p + 1 < Len(s) /\ s[p + 2] = SPACE THEN p + 1 ELSE WordRight(s, p + 1)
  ELSE p

\* The result of one readch call: the buffer, the cursor, and whether a
\* String method panicked (then buf and pos are as the panic left them).
Ok(s, p) == [buf |-> s, pos |-> p, fault |-> "none"]
Panic(s, p) == [buf |-> s, pos |-> p, fault |-> "char_boundary"]

\* Key::Char arm: buf.insert(*pos, ch); *pos += 1.
InsertChar(s, p, c) ==
  IF ~IsCharBoundary(s, p) THEN Panic(s, p)
  ELSE Ok(SubSeq(s, 1, p) \o Utf8(c) \o SubSeq(s, p + 1, Len(s)), p + 1)

\* Key::Backspace arm: *pos -= 1; buf.remove(*pos).
Backspace(s, p) ==
  IF p > 0
  THEN IF ~IsCharBoundary(s, p - 1) THEN Panic(s, p - 1)
       ELSE Ok(SubSeq(s, 1, p - 1) \o SubSeq(s, p + CharWidth(s[p]), Len(s)), p - 1)
  ELSE Ok(s, p)

\* Key::CtrlBackspace arm.
CtrlBackspace(s, p) ==
  IF ~IsCharBoundary(s, p) THEN Panic(s, p)
  ELSE LET idx == RPositionSpace(s, p)
       IN Ok(SubSeq(s, 1, idx) \o SubSeq(s, p + 1, Len(s)), idx)

\* Key::CtrlArrowLeft arm.
CtrlArrowLeft(s, p) ==
  IF ~IsCharBoundary(s, p) THEN Panic(s, p) ELSE Ok(s, RPositionSpace(s, p))

\* Mutant of Readch: Key::NA falls into the Backspace arm.
ReadchNADeletes(s, p, k) ==
  CASE k.type = "Char" -> InsertChar(s, p, k.ch)
    [] k.type \in {"Backspace", "NA"} -> Backspace(s, p)
    [] k.type = "ArrowLeft" -> Ok(s, SaturatingSub(p, 1))
    [] k.type = "ArrowRight" -> Ok(s, IF p < Len(s) THEN p + 1 ELSE p)
    [] k.type = "CtrlBackspace" -> CtrlBackspace(s, p)
    [] k.type = "CtrlArrowLeft" -> CtrlArrowLeft(s, p)
    [] k.type = "CtrlArrowRight" -> Ok(s, WordRight(s, p))
    [] OTHER -> Ok(s, p)

\* readch's match on the key read_key returned.
Readch(s, p, k) ==
  CASE k.type = "Char" -> InsertChar(s, p, k.ch)
    [] k.type = "Backspace" -> Backspace(s, p)
    [] k.type = "ArrowLeft" -> Ok(s, SaturatingSub(p, 1))
    [] k.type = "ArrowRight" -> Ok(s, IF p < Len(s) THEN p + 1 ELSE p)
    [] k.type = "CtrlBackspace" -> CtrlBackspace(s, p)
    [] k.type = "CtrlArrowLeft" -> CtrlArrowLeft(s, p)
    [] k.type = "CtrlArrowRight" -> Ok(s, WordRight(s, p))
    [] OTHER -> Ok(s, p)

\* --------------------------------------------------------------- state
VARIABLES
  pc,               \* "caller", "pushln", "readln", "readch", "returned",
                    \* "failed" or "panicked"
  fault,            \* what panicked: "none", "char_boundary", "index"
  history,          \* the caller's Vec<String>
  ret,              \* what the last pushln call returned
  local_history,    \* pushln: the working copies
  new_buf,          \* pushln: the fresh line
  hpos,             \* pushln: the recall index
  last_history_idx, \* pushln
  buf,              \* which String the reference `buf` points to
  pos,              \* the cursor
  key,              \* the key the last readch returned
  line,             \* readln: the caller's String
  line_in,          \* readln: the caller's String as it was at the call
  keys,             \* readln: the keys read so far by this call
  rk_pc,            \* read_key (unix): "idle", "first", "esc" or "done"
  rk_pos,           \* read_key (unix): pos
  rk_bytes,         \* read_key (unix): the bytes getch returned to this call
  term,             \* the terminal's mode (termios of stdin)
  term_in,          \* getch: the terminal's mode when getch was called
  old,              \* getch: old
  g_pc,             \* getch: the call that comes next, or "idle"
  g_ret             \* getch: 0, or the errno of the call that failed

vars == <<pc, fault, history, ret, local_history, new_buf, hpos,
          last_history_idx, buf, pos, key, line, line_in, keys,
          rk_pc, rk_pos, rk_bytes, term, term_in, old, g_pc, g_ret>>

read_key_state == <<rk_pc, rk_pos, rk_bytes>>
getch_state == <<term, term_in, old, g_pc, g_ret>>
unix_state == <<read_key_state, getch_state>>

pushln_locals == <<local_history, new_buf, hpos, last_history_idx>>
readln_state == <<line, line_in, keys>>

\* The three places `buf` can point to.
NewBuf == [vec |-> "new_buf", idx |-> 0]
Local(i) == [vec |-> "local_history", idx |-> i]
Line == [vec |-> "line", idx |-> 0]

\* *buf
Deref ==
  CASE buf.vec = "new_buf" -> new_buf
    [] buf.vec = "local_history" -> local_history[buf.idx + 1]
    [] OTHER -> line

\* A terminal mode: the two c_lflag bits and the two c_cc slots getch
\* writes (unix.rs:84-87).
Termios(icanon, echo, vmin, vtime) ==
  [icanon |-> icanon, echo |-> echo, vmin |-> vmin, vtime |-> vtime]

\* The mode a shell leaves the terminal in.
Cooked == Termios(TRUE, TRUE, 1, 0)

\* The value of `ret` while no pushln call has returned.
NoRet == <<0>>

\* The histories the caller starts with: Vec::new() as in bin.rs:4, and
\* ["a", "\u{e9}"].
InitHistories == {<<>>, <<Utf8(97), Utf8(233)>>}

\* Everything but the caller's history and the terminal's mode.
InitProgram ==
  /\ pc = "caller"
  /\ fault = "none"
  /\ ret = NoRet
  /\ local_history = <<>>
  /\ new_buf = <<>>
  /\ hpos = 0
  /\ last_history_idx = 0
  /\ buf = NewBuf
  /\ pos = 0
  /\ key = NoKey
  /\ line = <<>>
  /\ line_in = <<>>
  /\ keys = <<>>
  /\ rk_pc = "idle"
  /\ rk_pos = 0
  /\ rk_bytes = <<>>
  /\ old = Termios(FALSE, FALSE, 0, 0)
  /\ g_pc = "idle"
  /\ g_ret = 0

Init ==
  /\ InitProgram
  /\ history \in InitHistories
  /\ term = Cooked
  /\ term_in = Cooked

\* ---------------------------------------------------------------- pushln
\* Mutant of PushlnCall: last_history_idx is the length of the history,
\* not the index of its newest entry.
PushlnCallLastIsLen ==
  /\ pc = "caller"
  /\ Len(history) <= MaxHist
  /\ pc' = "pushln"
  /\ local_history' = <<>>
  /\ new_buf' = <<>>
  /\ pos' = 0
  /\ hpos' = Len(history)
  /\ buf' = NewBuf
  /\ last_history_idx' = Len(history)
  /\ key' = NoKey
  /\ ret' = NoRet
  /\ UNCHANGED <<fault, history, readln_state, unix_state>>

\* lib.rs:81-86.
PushlnCall ==
  /\ pc = "caller"
  /\ Len(history) <= MaxHist
  /\ pc' = "pushln"
  /\ local_history' = <<>>
  /\ new_buf' = <<>>
  /\ pos' = 0
  /\ hpos' = Len(history)
  /\ buf' = NewBuf
  /\ last_history_idx' = SaturatingSub(Len(history), 1)
  /\ key' = NoKey
  /\ ret' = NoRet
  /\ UNCHANGED <<fault, history, readln_state, unix_state>>

\* Writes s through the reference `buf`.
StoreNewBuf(s) == IF buf.vec = "new_buf" THEN s ELSE new_buf
StoreLocal(s) ==
  IF buf.vec = "local_history"
  THEN [local_history EXCEPT ![buf.idx + 1] = s]
  ELSE local_history

\* One turn of the loop for a key of the `_ => continue` arm.
PushlnContinue(k) ==
  /\ pc = "pushln"
  /\ k.type = "Char" => Len(Deref) + Len(Utf8(k.ch)) <= MaxLen
  /\ LET r == Readch(Deref, pos, k)
     IN /\ new_buf' = StoreNewBuf(r.buf)
        /\ local_history' = StoreLocal(r.buf)
        /\ pos' = r.pos
        /\ fault' = r.fault
        /\ pc' = IF r.fault = "none" THEN "pushln" ELSE "panicked"
  /\ key' = k
  /\ UNCHANGED <<history, ret, hpos, last_history_idx, buf, readln_state,
                 unix_state>>

\* Mutant of Rederive: a revisited index gets a new clone of the stored entry
\* in place of its working copy.
RederiveReclone(lh, hist, h, last) ==
  LET local_pos == WrappingSub(last, h)
  IN IF UsizeLess(local_pos, Len(lh))
     THEN [local_history |-> [lh EXCEPT ![UsizeNat(local_pos) + 1] = hist[h + 1]],
           buf |-> Local(UsizeNat(local_pos)), fault |-> "none"]
     ELSE IF h < Len(hist)
          THEN [local_history |-> Append(lh, hist[h + 1]),
                buf |-> Local(UsizeNat(local_pos)), fault |-> "none"]
          ELSE [local_history |-> lh, buf |-> NewBuf, fault |-> "none"]

\* lib.rs:102-112: which String `buf` points to for the recall index h.
\* When local_history[local_pos] panics nothing is assigned to `buf`: the
\* field is a filler then, and Recall leaves `buf` alone.
Rederive(lh, hist, h, last) ==
  LET local_pos == WrappingSub(last, h)
  IN IF UsizeLess(local_pos, Len(lh))
     THEN [local_history |-> lh, buf |-> Local(UsizeNat(local_pos)),
           fault |-> "none"]
     ELSE IF h < Len(hist)
          THEN LET pushed == Append(lh, hist[h + 1])
               IN [local_history |-> pushed,
                   buf |-> IF UsizeLess(local_pos, Len(pushed))
                           THEN Local(UsizeNat(local_pos))
                           ELSE NewBuf,
                   fault |-> IF UsizeLess(local_pos, Len(pushed))
                             THEN "none" ELSE "index"]
          ELSE [local_history |-> lh, buf |-> NewBuf, fault |-> "none"]

\* lib.rs:102-113 after the recall index became h.
Recall(h) ==
  LET r == Rederive(local_history, history, h, last_history_idx)
  IN /\ hpos' = h
     /\ local_history' = r.local_history
     /\ fault' = r.fault
     /\ IF r.fault = "none"
        THEN /\ buf' = r.buf
             /\ pos' = Len(IF r.buf.vec = "new_buf" THEN new_buf
                           ELSE r.local_history[r.buf.idx + 1])
             /\ pc' = "pushln"
        ELSE /\ UNCHANGED <<buf, pos>>
             /\ pc' = "panicked"
     /\ UNCHANGED <<history, ret, new_buf, last_history_idx, readln_state,
                    unix_state>>

\* Mutant of HistoryUp: the clamp is one entry short of the oldest.
HistoryUpStopsAtOne(h) == IF h > 1 THEN h - 1 ELSE h

\* Key::ArrowUp => hpos = hpos.saturating_sub(1)
HistoryUp(h) == SaturatingSub(h, 1)

\* Key::ArrowDown => if hpos < history.len() { hpos += 1 }
HistoryDown(h, n) == IF h < n THEN h + 1 ELSE h

PushlnArrowUp ==
  /\ pc = "pushln"
  /\ key' = Key("ArrowUp")
  /\ Recall(HistoryUp(hpos))

PushlnArrowDown ==
  /\ pc = "pushln"
  /\ key' = Key("ArrowDown")
  /\ Recall(HistoryDown(hpos, Len(history)))

\* Mutant of Submit: the line replaces the newest entry.
SubmitOverwritesLast(hist, s) ==
  IF Len(s) = 0 THEN hist
  ELSE IF Len(hist) = 0 THEN Append(hist, s)
  ELSE [hist EXCEPT ![Len(hist)] = s]

\* Mutant of Submit: the is_empty test is missing.
SubmitAlways(hist, s) == Append(hist, s)

\* lib.rs:117-123: the history after the call, for the active buffer s.
Submit(hist, s) == IF Len(s) = 0 THEN hist ELSE Append(hist, s)

\* lib.rs:118, 123: the returned &str.
Returned(hist, s) == IF Len(s) = 0 THEN <<>> ELSE Submit(hist, s)[Len(Submit(hist, s))]

\* Mutant of PushlnEnter: the fresh line is submitted, whatever is active.
PushlnEnterSubmitsNewBuf ==
  /\ pc = "pushln"
  /\ key' = Key("Enter")
  /\ history' = Submit(history, new_buf)
  /\ ret' = Returned(history, new_buf)
  /\ pc' = "caller"
  /\ UNCHANGED <<fault, pushln_locals, buf, pos, readln_state, unix_state>>

PushlnEnter ==
  /\ pc = "pushln"
  /\ key' = Key("Enter")
  /\ history' = Submit(history, Deref)
  /\ ret' = Returned(history, Deref)
  /\ pc' = "caller"
  /\ UNCHANGED <<fault, pushln_locals, buf, pos, readln_state, unix_state>>

\* ---------------------------------------------------------------- readln
\* Every valid String of at most n bytes over Chars.
RECURSIVE Strings(_)
Strings(n) ==
  IF n = 0 THEN {<<>>}
  ELSE LET shorter == Strings(n - 1)
       IN shorter \cup {s \o Utf8(c) : s \in shorter, c \in Chars}

CallerLines == {s \in Strings(MaxLine) : Len(s) <= MaxLine}

\* lib.rs:165.
ReadlnCall(s) ==
  /\ pc = "caller"
  /\ pc' = "readln"
  /\ line' = s
  /\ line_in' = s
  /\ keys' = <<>>
  /\ buf' = Line
  /\ pos' = Len(s)
  /\ key' = NoKey
  /\ UNCHANGED <<fault, history, ret, pushln_locals, unix_state>>

\* One turn of readln's loop for a key other than Enter.
ReadlnKey(k) ==
  /\ pc = "readln"
  /\ Len(keys) < MaxKeys
  /\ LET r == Readch(line, pos, k)
     IN /\ line' = r.buf
        /\ pos' = r.pos
        /\ fault' = r.fault
        /\ pc' = IF r.fault = "none" THEN "readln" ELSE "panicked"
  /\ key' = k
  /\ keys' = Append(keys, k)
  /\ UNCHANGED <<history, ret, pushln_locals, buf, line_in, unix_state>>

\* Enter ends the call; this caller makes one readln call.
ReadlnEnter ==
  /\ pc = "readln"
  /\ key' = Key("Enter")
  /\ pc' = "returned"
  /\ UNCHANGED <<fault, history, ret, pushln_locals, buf, pos, readln_state,
                 unix_state>>

\* ------------------------------------------------------- read_key (unix)
\* The bytes read_key tells apart in its first match (unix.rs:9-11).
ESC == 27
LF == 10
DEL == 127

\* ESC_SEQ_LEN (unix.rs:35): the length of ESC_SEQ_LIST, which the loop
\* also takes for its read budget.
ESC_SEQ_LEN == 4

\* ESC_SEQ_LIST: "[C", "[D", "[1;5C", "[1;5D".
EscSeqList ==
  << [key |-> Key("ArrowRight"), value |-> <<91, 67>>],
     [key |-> Key("ArrowLeft"), value |-> <<91, 68>>],
     [key |-> Key("CtrlArrowRight"), value |-> <<91, 49, 59, 53, 67>>],
     [key |-> Key("CtrlArrowLeft"), value |-> <<91, 49, 59, 53, 68>>] >>

\* The bytes the terminal sends in this model: ESC, LF, DEL, the bytes of
\* the table, 'A' (ESC [ A is what the Up key sends), BS and 'a'.
TtyBytes == {ESC, LF, DEL, 91, 67, 68, 49, 59, 53, 65, 8, 97}

\* unix.rs:8-13 for a first byte other than ESC.
FirstByteKey(b) ==
  CASE b = LF -> Key("Enter")
    [] b = DEL -> Key("Backspace")
    [] OTHER -> Char(b)

\* unix.rs:20-26: whether seq returns its key for the byte ch read at pos p.
EscWins(seq, p, ch) ==
  /\ p # Len(seq.value)
  /\ p < Len(seq.value) /\ seq.value[p + 1] = ch
  /\ Len(seq.value) - 1 = p

\* unix.rs:19-27: the index of the first entry that wins, 0 if none does.
EscMatch(p, ch) ==
  LET wins == {i \in 1..Len(EscSeqList) : EscWins(EscSeqList[i], p, ch)}
  IN IF wins = {} THEN 0 ELSE CHOOSE i \in wins : \A j \in wins : i <= j

\* unix.rs:15-32 on the bytes that follow ESC; NoKey while getch blocks for
\* want of a byte. The key the source calls Key::Special is the no-op key,
\* Key::NA.
RECURSIVE EscLoop(_, _)
EscLoop(rest, p) ==
  IF ~(p < ESC_SEQ_LEN + 1) THEN Key("NA")
  ELSE IF rest = <<>> THEN NoKey
  ELSE IF EscMatch(p, Head(rest)) # 0
       THEN EscSeqList[EscMatch(p, Head(rest))].key
       ELSE EscLoop(Tail(rest), p + 1)

\* read_key on the byte stream s.
ReadKeyOf(s) ==
  IF s = <<>> THEN NoKey
  ELSE IF Head(s) = ESC THEN EscLoop(Tail(s), 0)
  ELSE FirstByteKey(Head(s))

\* The buffers the caller hands to readch.
ReadchLines == {s \in CallerLines : Len(s) <= 1}

\* A caller calls readch(&mut line, &mut pos) with the cursor at the end.
ReadchCall(s) ==
  /\ pc = "caller"
  /\ pc' = "readch"
  /\ line' = s
  /\ line_in' = s
  /\ keys' = <<>>
  /\ buf' = Line
  /\ pos' = Len(s)
  /\ key' = NoKey
  /\ rk_pc' = "first"
  /\ rk_pos' = 0
  /\ rk_bytes' = <<>>
  /\ UNCHANGED <<fault, history, ret, pushln_locals, getch_state>>

\* lib.rs:237-275: read_key returned k; readch applies it and returns.
ReadchApply(k) ==
  /\ LET r == Readch(line, pos, k)
     IN /\ line' = r.buf
        /\ pos' = r.pos
        /\ fault' = r.fault
        /\ pc' = IF r.fault = "none" THEN "returned" ELSE "panicked"
  /\ key' = k
  /\ keys' = Append(keys, k)
  /\ rk_pc' = "done"

\* read_key is still reading.
ReadchWaits == UNCHANGED <<pc, fault, line, pos, key, keys>>

\* unix.rs:6-13: the first getch returns b.
ReadKeyFirst(b) ==
  /\ pc = "readch" /\ rk_pc = "first"
  /\ rk_bytes' = <<b>>
  /\ rk_pos' = 0
  /\ IF b = ESC
     THEN rk_pc' = "esc" /\ ReadchWaits
     ELSE ReadchApply(FirstByteKey(b))
  /\ UNCHANGED <<history, ret, pushln_locals, buf, line_in, getch_state>>

\* unix.rs:16-32: one turn of the loop, getch returns b.
ReadKeyLoop(b) ==
  /\ pc = "readch" /\ rk_pc = "esc"
  /\ rk_pos < ESC_SEQ_LEN + 1
  /\ rk_bytes' = Append(rk_bytes, b)
  /\ IF EscMatch(rk_pos, b) # 0
     THEN rk_pos' = rk_pos /\ ReadchApply(EscSeqList[EscMatch(rk_pos, b)].key)
     ELSE /\ rk_pos' = rk_pos + 1
          /\ IF rk_pos + 1 < ESC_SEQ_LEN + 1
             THEN rk_pc' = "esc" /\ ReadchWaits
             ELSE ReadchApply(Key("NA"))
  /\ UNCHANGED <<history, ret, pushln_locals, buf, line_in, getch_state>>

\* ------------------------------------------------------------ getch (unix)
\* The modes the terminal may be in when getch is called.
TermModes ==
  {Termios(c, e, m, t) : c \in BOOLEAN, e \in BOOLEAN, m \in {0, 1, 4}, t \in {0, 1}}

\* Everything getch leaves alone.
getch_frame ==
  <<pc, fault, history, ret, pushln_locals, buf, pos, key, readln_state,
    read_key_state>>

\* The errno values a failing call may leave (EINTR, EIO).
Errnos == {4, 5}

\* What a libc call reports: 0, or the errno it failed with.
Results == {0} \cup Errnos

\* return Err(io::Error::last_os_error())
GetchErr(r) == g_pc' = "idle" /\ g_ret' = r

\* unix.rs:72-73.
GetchCall ==
  /\ g_pc = "idle"
  /\ g_pc' = "fflush"
  /\ term_in' = term
  /\ old' = Termios(FALSE, FALSE, 0, 0)
  /\ UNCHANGED <<term, g_ret, getch_frame>>

\* unix.rs:76-78.
GetchFflush(r) ==
  /\ g_pc = "fflush"
  /\ IF r = 0 THEN g_pc' = "tcgetattr" /\ g_ret' = g_ret ELSE GetchErr(r)
  /\ UNCHANGED <<term, term_in, old, getch_frame>>

\* unix.rs:80-82.
GetchTcgetattr(r) ==
  /\ g_pc = "tcgetattr"
  /\ IF r = 0
     THEN old' = term /\ g_pc' = "set_raw" /\ g_ret' = g_ret
     ELSE old' = old /\ GetchErr(r)
  /\ UNCHANGED <<term, term_in, getch_frame>>

\* unix.rs:84-87.
RawOf(o) == [o EXCEPT !.icanon = FALSE, !.echo = FALSE, !.vmin = 1, !.vtime = 0]

\* unix.rs:84-91.
GetchSetRaw(r) ==
  /\ g_pc = "set_raw"
  /\ old' = RawOf(old)
  /\ IF r = 0
     THEN term' = RawOf(old) /\ g_pc' = "read" /\ g_ret' = g_ret
     ELSE term' = term /\ GetchErr(r)
  /\ UNCHANGED <<term_in, getch_frame>>

\* unix.rs:93-95.
GetchRead(r) ==
  /\ g_pc = "read"
  /\ IF r = 0 THEN g_pc' = "restore" /\ g_ret' = g_ret ELSE GetchErr(r)
  /\ UNCHANGED <<term, term_in, old, getch_frame>>

\* unix.rs:97-98.
CookedOf(o) == [o EXCEPT !.icanon = TRUE, !.echo = TRUE]

\* unix.rs:97-105.
GetchRestore(r) ==
  /\ g_pc = "restore"
  /\ old' = CookedOf(old)
  /\ IF r = 0
     THEN term' = CookedOf(old) /\ g_pc' = "idle" /\ g_ret' = 0
     ELSE term' = term /\ GetchErr(r)
  /\ UNCHANGED <<term_in, getch_frame>>

\* ------------------------------------------------- a failing key source
\* Err(e) as a value of `ret`: no byte of a String is negative.
IoErr(e) == <<-1, e>>

\* The calls of getch that can fail, in the order it makes them.
GetchSites == {"fflush", "tcgetattr", "set_raw", "read", "restore"}

\* The terminal after a getch that failed at `site`, called in mode m: the
\* returns at unix.rs:94 and unix.rs:101 come after the switch at
\* unix.rs:89 and put nothing back.
TermAfterFail(site, m) == IF site \in {"read", "restore"} THEN RawOf(m) ELSE m

\* getch's local `old` at that return.
OldAfterFail(site, m) ==
  CASE site \in {"fflush", "tcgetattr"} -> Termios(FALSE, FALSE, 0, 0)
    [] site \in {"set_raw", "read"} -> RawOf(m)
    [] OTHER -> CookedOf(RawOf(m))

\* One whole getch call whose call at `site` fails with e (unix.rs:71-102).
GetchFailsAt(site, e) ==
  /\ g_pc = "idle"
  /\ term_in' = term
  /\ term' = TermAfterFail(site, term)
  /\ old' = OldAfterFail(site, term)
  /\ g_pc' = "idle"
  /\ g_ret' = e

\* Mutant of PushlnFails: the active buffer is submitted before the error
\* is returned.
PushlnFailsSubmits(e) ==
  /\ pc = "pushln"
  /\ \E site \in GetchSites : GetchFailsAt(site, e)
  /\ ret' = IoErr(e)
  /\ history' = Submit(history, Deref)
  /\ pc' = "failed"
  /\ UNCHANGED <<fault, pushln_locals, buf, pos, key, readln_state,
                 read_key_state>>

\* lib.rs:90 with lib.rs:236 and unix.rs:6-17: a getch of read_key fails
\* with e and every `?` on the way returns it. bin.rs:7 returns it from
\* main, so nothing follows.
PushlnFails(e) ==
  /\ pc = "pushln"
  /\ \E site \in GetchSites : GetchFailsAt(site, e)
  /\ ret' = IoErr(e)
  /\ pc' = "failed"
  /\ UNCHANGED <<fault, history, pushln_locals, buf, pos, key, readln_state,
                 read_key_state>>

\* lib.rs:168 with lib.rs:236 and unix.rs:6-17, the same in readln.
ReadlnFails(e) ==
  /\ pc = "readln"
  /\ \E site \in GetchSites : GetchFailsAt(site, e)
  /\ ret' = IoErr(e)
  /\ pc' = "failed"
  /\ UNCHANGED <<fault, history, pushln_locals, buf, pos, key, readln_state,
                 read_key_state>>

\* A caller's first call, when that is pushln on the history it starts with.
PushlnFirst == ret = NoRet /\ PushlnCall

\* A caller's first call, when that is readln on a line of its own.
ReadlnFirst(s) == ret = NoRet /\ history = <<>> /\ ReadlnCall(s)

\* ----------------------------------------------------------- specifications
Next ==
  \/ PushlnCall
  \/ \E k \in EditKeys : PushlnContinue(k)
  \/ PushlnArrowUp
  \/ PushlnArrowDown
  \/ PushlnEnter

Spec == Init /\ [][Next]_vars

NextReadln ==
  \/ \E s \in CallerLines : ReadlnCall(s)
  \/ \E k \in LoopKeys : ReadlnKey(k)
  \/ ReadlnEnter

InitReadln == Init /\ history = <<>>

SpecReadln == InitReadln /\ [][NextReadln]_vars

NextReadKey ==
  \/ \E s \in ReadchLines : ReadchCall(s)
  \/ \E b \in TtyBytes : ReadKeyFirst(b)
  \/ \E b \in TtyBytes : ReadKeyLoop(b)

SpecReadKey == InitReadln /\ [][NextReadKey]_vars

NextIo ==
  \/ PushlnFirst
  \/ \E k \in EditKeys : PushlnContinue(k)
  \/ PushlnArrowUp
  \/ PushlnArrowDown
  \/ PushlnEnter
  \/ \E e \in Errnos : PushlnFails(e)
  \/ \E s \in CallerLines : ReadlnFirst(s)
  \/ \E k \in LoopKeys : ReadlnKey(k)
  \/ ReadlnEnter
  \/ \E e \in Errnos : ReadlnFails(e)

SpecIo == Init /\ [][NextIo]_vars

NextGetch ==
  \/ GetchCall
  \/ \E r \in Results : GetchFflush(r)
  \/ \E r \in Results : GetchTcgetattr(r)
  \/ \E r \in Results : GetchSetRaw(r)
  \/ \E r \in Results : GetchRead(r)
  \/ \E r \in Results : GetchRestore(r)

InitGetch ==
  /\ InitProgram
  /\ history = <<>>
  /\ term \in TermModes
  /\ term_in = term

SpecGetch == InitGetch /\ [][NextGetch]_vars

\* ------------------------------------------------------------------ claims
\* A step of pushln's loop that read key k.
PushlnRead(k) == pc = "pushln" /\ key' = k

\* C1: the stored history changes only when pushln returns, and then it is
\* the history at entry followed by the submitted line iff that line is not
\* empty; a new session starts without any working copy or fresh text.
C1_HistoryAppendOnly ==
  [][/\ (pc = "pushln" /\ pc' = "caller") =>
          history' = IF Deref = <<>> THEN history ELSE history \o <<Deref>>
     /\ ~(pc = "pushln" /\ pc' = "caller") => history' = history
     /\ (pc = "caller" /\ pc' = "pushln") =>
          local_history' = <<>> /\ new_buf' = <<>> /\ buf' = NewBuf]_vars

\* A session returned the fresh line after a recalled entry had been edited
\* and left unsubmitted.
C1_Witness ==
  /\ pc = "caller" /\ key = Key("Enter")
  /\ buf = NewBuf /\ ret = new_buf /\ ret # <<>>
  /\ history[Len(history)] = ret
  /\ Len(local_history) >= 1
  /\ local_history[1] # history[last_history_idx + 1]

\* C2: Enter on a non-empty active buffer returns that buffer's contents and
\* appends them as the new last entry.
C2_EnterAppendsActive ==
  [][(PushlnRead(Key("Enter")) /\ Deref # <<>>) =>
       /\ pc' = "caller"
       /\ ret' = Deref
       /\ Len(history') = Len(history) + 1
       /\ history'[Len(history')] = Deref
       /\ SubSeq(history', 1, Len(history)) = history]_vars

\* A recalled entry was submitted unchanged (a duplicate) while the fresh
\* line held other text.
C2_Witness ==
  /\ pc = "caller" /\ key = Key("Enter")
  /\ buf.vec = "local_history" /\ ret = Deref /\ ret # <<>>
  /\ new_buf # <<>> /\ new_buf # ret
  /\ history[Len(history)] = ret
  /\ \E i \in 1..(Len(history) - 1) : history[i] = ret

\* C3: Enter on an empty active buffer returns "" and leaves the history as
\* it is.
C3_EnterEmpty ==
  [][(PushlnRead(Key("Enter")) /\ Deref = <<>>) =>
       /\ pc' = "caller"
       /\ ret' = <<>>
       /\ history' = history]_vars

\* A recalled entry was edited down to empty and submitted while the fresh
\* line held text.
C3_Witness ==
  /\ pc = "caller" /\ key = Key("Enter")
  /\ buf.vec = "local_history" /\ Deref = <<>> /\ ret = <<>>
  /\ history[hpos + 1] # <<>>
  /\ new_buf # <<>>

\* The working copy that belongs to recall index h.
CopyOf(h) == Local(Len(history) - 1 - h)

\* What the String behind reference r holds in the next state.
DerefNext(r) ==
  IF r.vec = "new_buf" THEN new_buf' ELSE local_history'[r.idx + 1]

\* C4: with n >= 1 entries, Up moves the recall index one entry towards the
\* oldest and stays at 0 there; the active buffer is then the working copy of
\* that index, equal to the stored entry on the first visit and as it was
\* left otherwise (a copy changes only under an edit key while active), with
\* the cursor at its end. The fresh line is active exactly at index n.
C4_UpRecalls ==
  /\ [](pc = "pushln" =>
          /\ buf = NewBuf <=> hpos = Len(history)
          /\ buf.vec = "local_history" => buf = CopyOf(hpos))
  /\ [][(PushlnRead(Key("ArrowUp")) /\ Len(history) >= 1) =>
          /\ pc' = "pushln"
          /\ hpos' = IF hpos >= 1 THEN hpos - 1 ELSE 0
          /\ buf' = CopyOf(hpos')
          /\ pos' = Len(DerefNext(buf'))
          /\ DerefNext(buf') =
               IF buf'.idx < Len(local_history)
               THEN local_history[buf'.idx + 1]
               ELSE history[hpos' + 1]]_vars
  /\ [][pc = "pushln" =>
          \A i \in 1..Len(local_history) :
            local_history'[i] # local_history[i] =>
              buf = Local(i - 1) /\ key' \in EditKeys]_vars

\* Two entries, Up twice: the older one is shown, with the cursor at its end.
C4_Witness ==
  /\ pc = "pushln" /\ key = Key("ArrowUp")
  /\ Len(history) = 2 /\ history[1] # history[2]
  /\ hpos = 0 /\ buf = Local(1)
  /\ Deref = history[1] /\ pos = Len(Deref)

\* C5: Down on the newest entry returns to the fresh line, which is as it
\* was when recall began (it does not change while a recalled entry is
\* active), with the cursor at its end.
C5_DownRestoresFresh ==
  /\ [][(PushlnRead(Key("ArrowDown")) /\ buf.vec = "local_history"
            /\ hpos = Len(history) - 1) =>
          /\ pc' = "pushln"
          /\ hpos' = Len(history)
          /\ buf' = NewBuf
          /\ new_buf' = new_buf
          /\ pos' = Len(new_buf)]_vars
  /\ [][(pc = "pushln" /\ buf.vec = "local_history") => new_buf' = new_buf]_vars

\* Text was typed, the newest entry recalled and edited, and Down pressed.
C5_Witness ==
  /\ pc = "pushln" /\ key = Key("ArrowDown")
  /\ buf = NewBuf /\ hpos = Len(history)
  /\ new_buf # <<>> /\ pos = Len(new_buf)
  /\ Len(local_history) >= 1
  /\ local_history[1] # history[Len(history)]

\* C6: the recall index stays within [0, history.len()], no indexing goes out
\* of range, and Down on the fresh line is a no-op: it changes neither the
\* index nor the active buffer, neither its text nor its cursor, nor any
\* working copy.
C6_HposInRange ==
  [][/\ fault' # "index"
     /\ pc' = "pushln" =>
          /\ hpos' \in 0..Len(history')
          /\ buf'.vec = "local_history" =>
               hpos' < Len(history') /\ buf'.idx < Len(local_history')
     /\ (PushlnRead(Key("ArrowDown")) /\ hpos = Len(history)) =>
          /\ pc' = "pushln"
          /\ buf = NewBuf
          /\ hpos' = hpos
          /\ buf' = buf
          /\ new_buf' = new_buf
          /\ pos' = pos
          /\ local_history' = local_history]_vars

\* C7: within a session a working copy is created only as a clone of the
\* stored entry being visited for the first time, is never dropped, changes
\* only while it is the active buffer, and is what Up and Down show again on
\* a later visit to its index.
C7_WorkingCopies ==
  [][pc = "pushln" =>
       /\ Len(local_history') >= Len(local_history)
       /\ \A i \in 1..Len(local_history) :
            local_history'[i] # local_history[i] =>
              buf = Local(i - 1) /\ key' \in EditKeys
       /\ buf.vec = "local_history" => new_buf' = new_buf
       /\ Len(local_history') > Len(local_history) =>
            /\ key' \in {Key("ArrowUp"), Key("ArrowDown")}
            /\ Len(local_history') = Len(local_history) + 1
            /\ buf' = Local(Len(local_history))
            /\ buf' = CopyOf(hpos')
            /\ local_history'[Len(local_history')] = history[hpos' + 1]
       /\ (key' \in {Key("ArrowUp"), Key("ArrowDown")}
             /\ hpos' < Len(history)
             /\ Len(history) - 1 - hpos' < Len(local_history)) =>
            /\ buf' = CopyOf(hpos')
            /\ local_history' = local_history]_vars

\* Both entries were recalled and edited, and Down came back to the newer
\* one: either copy still differs from its stored entry.
C7_Witness ==
  /\ pc = "pushln" /\ key = Key("ArrowDown")
  /\ Len(history) = 2 /\ Len(local_history) = 2
  /\ buf = Local(0) /\ hpos = 1
  /\ local_history[1] # history[2]
  /\ local_history[2] # history[1]

\* C8: while a read is in progress the cursor is a split point of the active
\* buffer: within its length and not inside an encoded character.
C8_CursorIsSplitPoint ==
  pc \in {"pushln", "readln"} =>
    pos >= 0 /\ pos <= Len(Deref) /\ IsCharBoundary(Deref, pos)

\* The characters of the keys ks, encoded and concatenated in order.
RECURSIVE Typed(_)
Typed(ks) ==
  IF ks = <<>> THEN <<>> ELSE Utf8(Head(ks).ch) \o Typed(Tail(ks))

\* C9: a readln call that began on an empty buffer and read nothing but
\* character keys holds their concatenation, with the cursor at its length.
C9_InsertsConcatenate ==
  (line_in = <<>> /\ \A i \in 1..Len(keys) : keys[i].type = "Char") =>
    pc # "panicked" /\ line = Typed(keys) /\ pos = Len(line)

\* Offset at which the maximal space-free suffix of s[0..p] starts.
WordStart(s, p) ==
  LET spaces == {i \in 1..p : s[i] = SPACE}
  IN IF spaces = {} THEN 0 ELSE CHOOSE i \in spaces : \A j \in spaces : j <= i

\* C10: CtrlBackspace removes exactly the maximal space-free suffix of the
\* text before the cursor and leaves the cursor where that suffix began.
C10_DeleteWordKeepsSpace ==
  [][(pc = "readln" /\ key' = Key("CtrlBackspace")) =>
       /\ pc' = "readln"
       /\ pos' = WordStart(line, pos)
       /\ line' = SubSeq(line, 1, WordStart(line, pos))
                    \o SubSeq(line, pos + 1, Len(line))]_vars

\* C11: the no-op key changes nothing: the buffer readch was given and the
\* cursor are as before, and in pushln so are the recall index, the active
\* buffer, every working copy, the fresh line and the history; the loop
\* goes on.
C11_NoOpKey ==
  [][PushlnRead(Key("NA")) =>
       /\ pc' = "pushln"
       /\ fault' = fault
       /\ DerefNext(buf) = Deref
       /\ pos' = pos
       /\ hpos' = hpos
       /\ buf' = buf
       /\ local_history' = local_history
       /\ new_buf' = new_buf
       /\ history' = history
       /\ ret' = ret]_vars

\* The no-op key arrived while a recalled entry was active with the cursor
\* before its text, the fresh line holding text too.
C11_Witness ==
  /\ pc = "pushln" /\ key = Key("NA")
  /\ buf.vec = "local_history" /\ Deref # <<>> /\ pos = 0
  /\ new_buf # <<>>

\* s is the beginning of u.
IsPrefix(s, u) == Len(s) <= Len(u) /\ SubSeq(u, 1, Len(s)) = s

\* The bytes read_key consumed after the escape introducer.
AfterEsc == Tail(rk_bytes)

\* A read_key call that began with ESC has returned.
EscDecoded == rk_pc = "done" /\ Head(rk_bytes) = ESC

\* C12: ESC followed by exactly the bytes of a table entry decodes to that
\* entry's key; ESC [ followed by bytes that leave every table entry decodes
\* to the no-op key; and no byte the call consumed is inserted.
C12_EscapeDecoding ==
  EscDecoded =>
    /\ \A i \in 1..Len(EscSeqList) :
         AfterEsc = EscSeqList[i].value => key = EscSeqList[i].key
    /\ (/\ Head(AfterEsc) = 91
        /\ \A i \in 1..Len(EscSeqList) :
             ~IsPrefix(AfterEsc, EscSeqList[i].value)
               /\ ~IsPrefix(EscSeqList[i].value, AfterEsc))
         => key = Key("NA")
    /\ pc = "returned" /\ line = line_in

\* The keys readch and pushln act on.
ActedKeyTypes ==
  {"Enter", "Backspace", "CtrlBackspace", "ArrowLeft", "ArrowRight",
   "CtrlArrowLeft", "CtrlArrowRight", "ArrowUp", "ArrowDown"}

\* The streams of n bytes; read_key consumes one byte, or ESC and at most
\* the loop's budget of bytes.
TtyStreams(n) == [1..n -> TtyBytes]

\* C13: whenever read_key is called, for each key the editor and the
\* navigator act on there is a byte stream for which it returns that key.
C13_EveryKeyProducible ==
  (pc = "readch" /\ rk_pc = "first") =>
  \A t \in ActedKeyTypes :
    \E n \in 1..(ESC_SEQ_LEN + 2) : \E s \in TtyStreams(n) : ReadKeyOf(s).type = t

\* C16: after ESC a table entry's key is returned only when the bytes read
\* since ESC are exactly that entry's bytes, the first such entry in table
\* order.
C16_OnlyCandidatesWin ==
  (EscDecoded /\ key # Key("NA")) =>
    LET exact == {i \in 1..Len(EscSeqList) : EscSeqList[i].value = AfterEsc}
    IN /\ exact # {}
       /\ key = EscSeqList[CHOOSE i \in exact : \A j \in exact : i <= j].key

\* C17: a first byte other than ESC is inserted only if it is printable (at
\* least 32 and not DEL); a control byte becomes Enter or a backspace
\* variant and adds nothing to the buffer.
C17_ControlBytesNotInserted ==
  (rk_pc = "done" /\ Head(rk_bytes) # ESC) =>
    LET b == Head(rk_bytes)
    IN /\ key.type = "Char" => b >= SPACE /\ b # DEL /\ key.ch = b
       /\ (b < SPACE \/ b = DEL) =>
            /\ key.type \in {"Enter", "Backspace", "CtrlBackspace"}
            /\ Len(line) <= Len(line_in)

\* C14: when the key source fails during a pushln or readln call, the call
\* returns the error the key source failed with, no key is read after it and
\* nothing follows the failure; a step of pushln other than its return on
\* Enter, the failing one included, leaves the history as it was.
C14_IoErrorSurfaced ==
  [][/\ pc # "failed"
     /\ pc' = "failed" =>
          /\ pc \in {"pushln", "readln"}
          /\ g_ret' \in Errnos
          /\ ret' = IoErr(g_ret')
          /\ history' = history
          /\ key' = key
          /\ keys' = keys
          /\ line' = line
     /\ (pc = "pushln" /\ pc' # "caller") => history' = history]_vars

\* A read failed in Recalling, after keys that edited the recalled copy.
C14_Witness ==
  /\ pc = "failed"
  /\ hpos < Len(history)
  /\ buf.vec = "local_history"
  /\ key # NoKey
  /\ Deref # history[hpos + 1]
  /\ ret = IoErr(g_ret)

\* C15: whenever getch is not running, the terminal's mode (canonical flag,
\* echo flag, minimum read count, inter-byte timeout) is what it was when
\* getch was last called.
C15_TerminalModeRestored == g_pc = "idle" => term = term_in

\* Index of the last space of s at an index below p, 0 if there is none.
LastSpaceBelow(s, p) ==
  IF \E i \in 0..(p - 1) : s[i + 1] = SPACE
  THEN CHOOSE i \in 0..(p - 1) :
         /\ s[i + 1] = SPACE
         /\ \A j \in (i + 1)..(p - 1) : s[j + 1] # SPACE
  ELSE 0

\* C18: CtrlArrowLeft and CtrlBackspace both leave the cursor at the index
\* of the last space below it (0 if there is none), which is below the old
\* cursor when that was not 0; CtrlArrowLeft leaves the buffer as it was and
\* CtrlBackspace leaves the text below that index followed by the text from
\* the old cursor on.
C18_BackwardScan ==
  [][(pc = "readln" /\ key' \in {Key("CtrlArrowLeft"), Key("CtrlBackspace")}) =>
       /\ pc' = "readln"
       /\ pos' = LastSpaceBelow(line, pos)
       /\ pos > 0 => pos' < pos
       /\ key' = Key("CtrlArrowLeft") => line' = line
       /\ key' = Key("CtrlBackspace") =>
            line' = SubSeq(line, 1, LastSpaceBelow(line, pos))
                      \o SubSeq(line, pos + 1, Len(line))]_vars

\* Index of the first space of s at an index above p, Len(s) if there is
\* none.
FirstSpaceAbove(s, p) ==
  LET spaces == {i \in (p + 1)..(Len(s) - 1) : s[i + 1] = SPACE}
  IN IF spaces = {} THEN Len(s) ELSE CHOOSE i \in spaces : \A j \in spaces : i <= j

\* C19: CtrlArrowRight leaves the buffer as it was and puts the cursor on
\* the next space after it, or at the end of the buffer if there is none;
\* the cursor stays within the buffer, stays where it is at the end of the
\* buffer and moves forward anywhere else.
C19_WordRight ==
  [][(pc = "readln" /\ key' = Key("CtrlArrowRight")) =>
       /\ pc' = "readln"
       /\ line' = line
       /\ pos' = IF pos < Len(line) THEN FirstSpaceAbove(line, pos) ELSE pos
       /\ pos' <= Len(line)
       /\ pos = Len(line) => pos' = pos
       /\ pos < Len(line) => pos' > pos]_vars

\* CtrlArrowRight stopped on a space before the end of the buffer.
C19_Witness ==
  /\ pc = "readln"
  /\ key = Key("CtrlArrowRight")
  /\ 0 < pos /\ pos < Len(line)
  /\ line[pos + 1] = SPACE

\* The larger of two numbers.
Max(a, b) == IF a >= b THEN a ELSE b

\* C20: in a session on a history of n entries the shadow list holds a copy
\* for every index from the current one up to n-1, and no more than n; Up
\* and Down make it as long as n minus the recall index they reach unless
\* it is longer already, and no other key changes its length; a copy is
\* created only at the list's end, at the index computed for the recall
\* index reached, as a clone of the entry n-1-k for its place k; the active
\* buffer after Up or Down is the copy at place n-1-hpos, inside the list,
\* or the fresh line at hpos = n; the indexed access never fails.
C20_ShadowAligned ==
  [][pc = "pushln" =>
       /\ fault' # "index"
       /\ Len(history) - hpos <= Len(local_history)
       /\ Len(local_history) <= Len(history)
       /\ key' \notin {Key("ArrowUp"), Key("ArrowDown")} =>
            Len(local_history') = Len(local_history)
       /\ key' \in {Key("ArrowUp"), Key("ArrowDown")} =>
            /\ Len(local_history') =
                 Max(Len(local_history), Len(history) - hpos')
            /\ Len(local_history') > Len(local_history) =>
                 /\ WrappingSub(last_history_idx, hpos') = Usize(Len(local_history))
                 /\ Len(history) - 1 - Len(local_history) = hpos'
                 /\ local_history'[Len(local_history) + 1] =
                      history[Len(history) - Len(local_history)]
            /\ hpos' < Len(history) =>
                 /\ buf' = Local(Len(history) - 1 - hpos')
                 /\ buf'.idx < Len(local_history')
            /\ hpos' = Len(history) => buf' = NewBuf]_vars

\* Down left the oldest entry for the newer one: the list still holds the
\* copies of both, one more than the current index asks for.
C20_Witness ==
  /\ pc = "pushln" /\ key = Key("ArrowDown")
  /\ Len(history) = 2 /\ hpos = 1
  /\ Len(local_history) = 2
  /\ buf = Local(0)

\* A getch that failed, taken call by call, left the terminal and `old` as
\* GetchFailsAt leaves them for one of the sites.
GetchFailsAgrees ==
  (g_pc = "idle" /\ g_ret # 0) =>
    \E site \in GetchSites :
      /\ term = TermAfterFail(site, term_in)
      /\ old = OldAfterFail(site, term_in)

\* read_key as a function of the stream agrees with read_key step by step.
ReadKeyAgrees ==
  pc = "readch" \/ rk_pc = "done" =>
    ReadKeyOf(rk_bytes) = IF rk_pc = "done" THEN key ELSE NoKey

====
